---- MODULE Spec2Model ----
(***************************************************************************)
(* Canvas physics demos (src/js/simulation.js) and the throttled hero fade *)
(* (src/js/script.js) of nick_site.                                        *)
(*                                                                         *)
(* src/js/simulation.js holds three demos, each a complete script:         *)
(*   lines   1-198  waveguide coupling      (demo = "waveguide")           *)
(*   lines 200-372  dipole radiation, basic (demo = "dipole")              *)
(*   lines 374-515  dipole radiation, tanh  (demo = "dipole": its handlers *)
(*                  and its animate are the basic demo's, line for line;   *)
(*                  it differs in getFieldAt and in the colour map)        *)
(*                                                                         *)
(* Units.  The scripts compute in floating point; the model keeps exact    *)
(* integers:                                                               *)
(*   time, drawnTime   tenths         (0.5 -> 5, 0.3 -> 3)                 *)
(*   frequency         thousandths    (0.05 -> 50, [0.04, 0.06) -> 40..59) *)
(*   separation        a fraction [n, d] in lowest terms                   *)
(*   field values      multiples of 1/FieldScale                           *)
(*   container widths  multiples of 32 px, so that width * 9 / 16 and the  *)
(*                     canvas centre are whole pixels                      *)
(***************************************************************************)
EXTENDS Integers, Naturals, Sequences, FiniteSets, TLC

VARIABLES
    demo,            \* which of the scripts of simulation.js the page loads
    canvasPresent,   \* does document.getElementById('physics-canvas') find an element
    pc,              \* "load" before the script runs, then "running" or "crashed"
    error,           \* the uncaught exception of the script, "none" if there is none
    handlers,        \* have click / dblclick / resize listeners been registered
    width, height,   \* let width, height
    time,            \* let time
    drawnTime,       \* the value of time the last drawField read (-1: nothing drawn)
    separation,      \* let separation (waveguide demo)
    dipoles,         \* const dipoles = [] : sequence of Dipole records
    nextId,          \* identity of the next Dipole object to be constructed
    animationId,     \* let animationId : the handle of the last frame request
    pendingFrames,   \* frame callbacks requested and not yet delivered
    ticks,           \* history: calls of animate since time was last set to 0
    ev,              \* history: the handler that ran last
    ticking,         \* script.js: let ticking
    pendingUpdates,  \* script.js: hero update callbacks requested and not yet run
    scrolled,        \* script.js: window.pageYOffset
    opacity,         \* script.js: hero.style.opacity, in units of 1/(2*InnerHeight)
    hero,            \* script.js: does document.querySelector('.hero') find an element
    dropped,         \* history: the last scroll event scheduled nothing
    summed,          \* drawField: dipoles already added into totalField
    totalField,      \* drawField: let totalField / let field
    sharp,           \* drawField: const sharp (tanh demo)
    cmap,            \* which colour map computed pixel
    pixel            \* the four values assigned to data[idx .. idx+3]

simVars == <<demo, canvasPresent, pc, error, handlers, width, height, time,
             drawnTime, separation, dipoles, nextId, animationId,
             pendingFrames, ticks, ev>>
scrollVars == <<ticking, pendingUpdates, scrolled, opacity, hero, dropped>>
colourVars == <<summed, totalField, sharp, cmap, pixel>>
vars == <<simVars, scrollVars, colourVars>>

(***************************************************************************)
(* Bounds of the model.                                                    *)
(***************************************************************************)
MaxWidthUnits == 2     \* container widths are 32, 64, ... 32 * MaxWidthUnits
MaxFrames == 3         \* frame requests explored
MaxId == 8             \* Dipole objects constructed
MaxScroll == 9         \* scroll offsets explored
InnerHeight == 6       \* window.innerHeight
FieldScale == 2        \* field values are multiples of 1/FieldScale
TanhScale == 10        \* tanh values are multiples of 1/TanhScale

(***************************************************************************)
(* Program constants.                                                      *)
(***************************************************************************)
MaxDipoles == 6
DefaultSeparation == 3
WaveguideStep == 3
DipoleStep == 5
DefaultFrequency == 50
DefaultAmplitude == 1

Demos == {"waveguide", "dipole"}
Widths == {32 * k : k \in 1..MaxWidthUnits}

Min(a, b) == IF a < b THEN a ELSE b
Max(a, b) == IF a > b THEN a ELSE b
Abs(a) == IF a < 0 THEN -a ELSE a

RECURSIVE Gcd(_, _)
Gcd(a, b) == IF b = 0 THEN a ELSE Gcd(b, a % b)

\* the fraction n/d, d > 0, in lowest terms
Frac(n, d) == [n |-> n \div Gcd(n, d), d |-> d \div Gcd(n, d)]

----------------------------------------------------------------------------
(***************************************************************************)
(* simulation.js                                                           *)
(***************************************************************************)

\* class Dipole: the constructor; id stands for the object's identity
Dipole(x, y, frequency, amplitude, id) ==
    [x |-> x, y |-> y, frequency |-> frequency, amplitude |-> amplitude,
     id |-> id]

\* resizeCanvas(): width = rect.width; height = width * 9 / 16.  (The tanh
\* demo also scales canvas.width by devicePixelRatio; width and height are
\* the same.)
ResizeCanvas(w) == [width |-> w, height |-> (w * 9) \div 16]

\* variant of createInitialDipoles that omits dipoles.length = 0
CreateInitialDipolesKeeping(old, w, h, id) ==
    Append(old, Dipole(w \div 2, h \div 2, DefaultFrequency, DefaultAmplitude, id))

\* createInitialDipoles(): dipoles.length = 0; dipoles.push(new Dipole(...))
CreateInitialDipoles(old, w, h, id) ==
    <<Dipole(w \div 2, h \div 2, DefaultFrequency, DefaultAmplitude, id)>>

\* variant of the click handler's update that overwrites the oldest Dipole
\* object in place when the list is full
PushReuseOldest(list, d) ==
    IF Len(list) + 1 > MaxDipoles
       THEN [list EXCEPT ![1] = [d EXCEPT !.id = list[1].id]]
       ELSE Append(list, d)

\* variant of the click handler's update with the limit test >= 6
PushEarly(list, d) ==
    IF Len(list) + 1 >= MaxDipoles THEN Tail(Append(list, d)) ELSE Append(list, d)

\* the click handler's list update: push, then shift when longer than 6
PushBounded(list, d) ==
    IF Len(list) + 1 > MaxDipoles THEN Tail(Append(list, d)) ELSE Append(list, d)

\* variant with one increment for every demo
TimeStepSame(d) == DipoleStep

\* time += 0.3 (waveguide) / time += 0.5 (dipole)
TimeStep(d) == IF d = "waveguide" THEN WaveguideStep ELSE DipoleStep

\* variant of animate that omits requestAnimationFrame(animate)
AnimateNoRequest(consumed) ==
    /\ drawnTime' = time
    /\ time' = time + TimeStep(demo)
    /\ ticks' = ticks + 1
    /\ animationId' = animationId + 1
    /\ pendingFrames' = pendingFrames - consumed

\* animate(): draw with the current time, advance it, request the next frame.
\* consumed is 1 when animate runs as a delivered frame callback, 0 when
\* initSimulation calls it.
Animate(consumed) ==
    /\ drawnTime' = time
    /\ time' = time + TimeStep(demo)
    /\ ticks' = ticks + 1
    /\ animationId' = animationId + 1
    /\ pendingFrames' = (pendingFrames - consumed) + 1

\* clicks on the canvas: the position e.clientX - rect.left, e.clientY - rect.top
\* and the frequency 0.04 + Math.random() * 0.02 drawn for it.  The third is
\* a click on the centre that draws the default frequency.
ClickEvents(w, h) ==
    {[x |-> 0, y |-> 0, frequency |-> 40],
     [x |-> w - 1, y |-> h - 1, frequency |-> 59],
     [x |-> w \div 2, y |-> h \div 2, frequency |-> DefaultFrequency]}
ClickYs(h) == {0, h \div 2, h - 1}

\* the script from its first line to initSimulation(), canvas found:
\* listeners registered, resizeCanvas, createInitialDipoles, animate
LoadScript ==
    /\ pc = "load"
    /\ canvasPresent
    /\ \E w \in Widths :
          /\ width' = ResizeCanvas(w).width
          /\ height' = ResizeCanvas(w).height
          /\ IF demo = "dipole"
                THEN /\ dipoles' = CreateInitialDipoles(dipoles, ResizeCanvas(w).width,
                                                        ResizeCanvas(w).height, nextId)
                     /\ nextId' = nextId + 1
                ELSE UNCHANGED <<dipoles, nextId>>
    /\ handlers' = TRUE
    /\ Animate(0)
    /\ pc' = "running"
    /\ ev' = "load"
    /\ UNCHANGED <<demo, canvasPresent, error, separation>>

\* the script when getElementById returns null: canvas.getContext('2d')
\* throws a TypeError and the rest of the script never runs
LoadScriptNoCanvas ==
    /\ pc = "load"
    /\ ~canvasPresent
    /\ error' = "TypeError"
    /\ pc' = "crashed"
    /\ ev' = "load"
    /\ UNCHANGED <<demo, canvasPresent, handlers, width, height, time, drawnTime,
                   separation, dipoles, nextId, animationId, pendingFrames, ticks>>

\* the host delivers the requested frame: animate runs
AnimationFrame ==
    /\ pc = "running"
    /\ pendingFrames > 0
    /\ animationId < MaxFrames
    /\ Animate(1)
    /\ ev' = "tick"
    /\ UNCHANGED <<demo, canvasPresent, pc, error, handlers, width, height,
                   separation, dipoles, nextId>>

\* waveguide demo, click: separation = 1 + (y / height) * 5
WaveguideClick ==
    /\ pc = "running" /\ handlers /\ demo = "waveguide"
    /\ \E y \in ClickYs(height) :
          separation' = Frac(height + y * 5, height)
    /\ ev' = "click"
    /\ UNCHANGED <<demo, canvasPresent, pc, error, handlers, width, height, time,
                   drawnTime, dipoles, nextId, animationId, pendingFrames, ticks>>

\* waveguide demo, dblclick: separation = 3; time = 0
WaveguideDblClick ==
    /\ pc = "running" /\ handlers /\ demo = "waveguide"
    /\ separation' = Frac(DefaultSeparation, 1)
    /\ time' = 0
    /\ ticks' = 0
    /\ ev' = "dblclick"
    /\ UNCHANGED <<demo, canvasPresent, pc, error, handlers, width, height,
                   drawnTime, dipoles, nextId, animationId, pendingFrames>>

\* waveguide demo, resize: resizeCanvas()
WaveguideResize ==
    /\ pc = "running" /\ handlers /\ demo = "waveguide"
    /\ \E w \in Widths :
          /\ width' = ResizeCanvas(w).width
          /\ height' = ResizeCanvas(w).height
    /\ ev' = "resize"
    /\ UNCHANGED <<demo, canvasPresent, pc, error, handlers, time, drawnTime,
                   separation, dipoles, nextId, animationId, pendingFrames, ticks>>

\* dipole demos, click: push a Dipole at the click, random frequency; shift
DipoleClick ==
    /\ pc = "running" /\ handlers /\ demo = "dipole"
    /\ nextId < MaxId
    /\ \E e \in ClickEvents(width, height) :
          dipoles' = PushBounded(dipoles, Dipole(e.x, e.y, e.frequency,
                                                 DefaultAmplitude, nextId))
    /\ nextId' = nextId + 1
    /\ ev' = "click"
    /\ UNCHANGED <<demo, canvasPresent, pc, error, handlers, width, height, time,
                   drawnTime, separation, animationId, pendingFrames, ticks>>

\* variant of the dblclick handler that omits time = 0
DipoleDblClickKeepsClock ==
    /\ pc = "running" /\ handlers /\ demo = "dipole"
    /\ nextId < MaxId
    /\ dipoles' = CreateInitialDipoles(dipoles, width, height, nextId)
    /\ nextId' = nextId + 1
    /\ ev' = "dblclick"
    /\ UNCHANGED <<demo, canvasPresent, pc, error, handlers, width, height, time,
                   ticks, drawnTime, separation, animationId, pendingFrames>>

\* dipole demos, dblclick: createInitialDipoles(); time = 0
DipoleDblClick ==
    /\ pc = "running" /\ handlers /\ demo = "dipole"
    /\ nextId < MaxId
    /\ dipoles' = CreateInitialDipoles(dipoles, width, height, nextId)
    /\ nextId' = nextId + 1
    /\ time' = 0
    /\ ticks' = 0
    /\ ev' = "dblclick"
    /\ UNCHANGED <<demo, canvasPresent, pc, error, handlers, width, height,
                   drawnTime, separation, animationId, pendingFrames>>

\* variant of the resize handler that omits createInitialDipoles()
DipoleResizeStale ==
    /\ pc = "running" /\ handlers /\ demo = "dipole"
    /\ nextId < MaxId
    /\ \E w \in Widths :
          /\ width' = ResizeCanvas(w).width
          /\ height' = ResizeCanvas(w).height
    /\ ev' = "resize"
    /\ UNCHANGED <<demo, canvasPresent, pc, error, handlers, time, drawnTime,
                   separation, dipoles, nextId, animationId, pendingFrames, ticks>>

\* dipole demos, resize: resizeCanvas(); createInitialDipoles()
DipoleResize ==
    /\ pc = "running" /\ handlers /\ demo = "dipole"
    /\ nextId < MaxId
    /\ \E w \in Widths :
          /\ width' = ResizeCanvas(w).width
          /\ height' = ResizeCanvas(w).height
          /\ dipoles' = CreateInitialDipoles(dipoles, ResizeCanvas(w).width,
                                             ResizeCanvas(w).height, nextId)
    /\ nextId' = nextId + 1
    /\ ev' = "resize"
    /\ UNCHANGED <<demo, canvasPresent, pc, error, handlers, time, drawnTime,
                   separation, animationId, pendingFrames, ticks>>

ScrollIdle ==
    /\ ticking = FALSE /\ pendingUpdates = 0 /\ scrolled = 0
    /\ opacity = 2 * InnerHeight /\ hero = TRUE /\ dropped = FALSE

ColourIdle ==
    /\ summed = 0 /\ totalField = 0 /\ sharp = 0 /\ cmap = "none"
    /\ pixel = <<0, 0, 0, 0>>

SimInit ==
    /\ demo \in Demos
    /\ canvasPresent \in BOOLEAN
    /\ pc = "load"
    /\ error = "none"
    /\ handlers = FALSE
    /\ width = 0 /\ height = 0
    /\ time = 0
    /\ drawnTime = -1
    /\ separation = Frac(DefaultSeparation, 1)
    /\ dipoles = <<>>
    /\ nextId = 0
    /\ animationId = 0
    /\ pendingFrames = 0
    /\ ticks = 0
    /\ ev = "none"

Init == SimInit /\ ScrollIdle /\ ColourIdle

Tick == AnimationFrame /\ UNCHANGED <<scrollVars, colourVars>>

Next ==
    \/ LoadScript /\ UNCHANGED <<scrollVars, colourVars>>
    \/ LoadScriptNoCanvas /\ UNCHANGED <<scrollVars, colourVars>>
    \/ Tick
    \/ WaveguideClick /\ UNCHANGED <<scrollVars, colourVars>>
    \/ WaveguideDblClick /\ UNCHANGED <<scrollVars, colourVars>>
    \/ WaveguideResize /\ UNCHANGED <<scrollVars, colourVars>>
    \/ DipoleClick /\ UNCHANGED <<scrollVars, colourVars>>
    \/ DipoleDblClick /\ UNCHANGED <<scrollVars, colourVars>>
    \/ DipoleResize /\ UNCHANGED <<scrollVars, colourVars>>

Spec == Init /\ [][Next]_vars

\* the host keeps delivering requested frames
SpecLive == Spec /\ WF_vars(Tick)

----------------------------------------------------------------------------
(***************************************************************************)
(* script.js: throttled parallax fade of the hero section                  *)
(***************************************************************************)

ScrollOffsets == 0..MaxScroll

\* variant of the scroll listener that omits ticking = true
ScrollNoFlag(y) ==
    /\ scrolled' = y
    /\ IF ~ticking
          THEN /\ pendingUpdates' = pendingUpdates + 1
               /\ ticking' = ticking
               /\ dropped' = FALSE
          ELSE /\ dropped' = TRUE
               /\ UNCHANGED <<pendingUpdates, ticking>>
    /\ UNCHANGED <<opacity, hero>>

\* the scroll listener: request one update unless one is already requested
Scroll(y) ==
    /\ scrolled' = y
    /\ IF ~ticking
          THEN /\ pendingUpdates' = pendingUpdates + 1
               /\ ticking' = TRUE
               /\ dropped' = FALSE
          ELSE /\ dropped' = TRUE
               /\ UNCHANGED <<pendingUpdates, ticking>>
    /\ UNCHANGED <<opacity, hero>>

\* the requested callback: fade the hero, then ticking = false
HeroUpdate ==
    /\ pendingUpdates > 0
    /\ pendingUpdates' = pendingUpdates - 1
    /\ opacity' = IF hero /\ scrolled < InnerHeight
                     THEN 2 * InnerHeight - scrolled
                     ELSE opacity
    /\ ticking' = FALSE
    /\ UNCHANGED <<scrolled, hero, dropped>>

SimIdle ==
    /\ demo = "none" /\ canvasPresent = FALSE /\ pc = "idle" /\ error = "none"
    /\ handlers = FALSE /\ width = 0 /\ height = 0 /\ time = 0
    /\ drawnTime = -1 /\ separation = Frac(DefaultSeparation, 1)
    /\ dipoles = <<>> /\ nextId = 0 /\ animationId = 0 /\ pendingFrames = 0
    /\ ticks = 0 /\ ev = "none"

ScrollInit ==
    /\ ticking = FALSE
    /\ pendingUpdates = 0
    /\ scrolled = 0
    /\ opacity = 2 * InnerHeight
    /\ hero \in BOOLEAN
    /\ dropped = FALSE
    /\ SimIdle /\ ColourIdle

ScrollNext ==
    \/ \E y \in ScrollOffsets : Scroll(y) /\ UNCHANGED <<simVars, colourVars>>
    \/ HeroUpdate /\ UNCHANGED <<simVars, colourVars>>

SpecScroll == ScrollInit /\ [][ScrollNext]_vars

----------------------------------------------------------------------------
(***************************************************************************)
(* simulation.js: drawField, one sampled pixel.  pixel holds the values    *)
(* the code assigns to data[idx], data[idx+1], data[idx+2], data[idx+3],   *)
(* before the Uint8ClampedArray stores them.                               *)
(*                                                                         *)
(* sin, atan2, pow, exp and tanh are not computed: a field term is any     *)
(* value its formula can produce, and tanh any value of an enclosure.      *)
(***************************************************************************)

ColourMaps == {"linear", "tanh", "waveguide"}
DistancesSquared == {0, 1, 4}

\* Dipole.getFieldAt: 0 when r < 1; otherwise amplitude / r^p * pattern * sin(..),
\* where r >= 1, 0 <= pattern <= 1 and |sin| <= 1
GetFieldAt(amplitude, rsq) ==
    IF rsq < 1 THEN {0}
    ELSE (-(amplitude * FieldScale)) .. (amplitude * FieldScale)

\* coupling.field1 * decay: sqrt(power) * cos(phase) * envelope * exp(-dy^2/100),
\* every factor in [-1, 1]; no term when dy >= fieldWidth
GuideField(inBand) ==
    IF inBand THEN (-FieldScale) .. FieldScale ELSE {0}

\* Math.tanh(x) for x = n/d >= 0 lies in [x/(1+x), min(x, 1)]; in units of
\* 1/TanhScale, rounded outwards
TanhEnclosure(n, d) ==
    ((n * TanhScale) \div (n + d)) .. Min(TanhScale, (n * TanhScale + d - 1) \div d)

\* variant of the linear map without the clamp to [-1, 1]
LinearBrightnessUnclamped(f) ==
    (255 * FieldScale - Abs(f * 5) * 200) \div FieldScale

\* basic dipole demo: normalized = max(-1, min(1, totalField * 5.0));
\* brightness = floor(255 - |normalized| * 200)
LinearBrightness(f) ==
    (255 * FieldScale - Abs(Max(-FieldScale, Min(FieldScale, f * 5))) * 200)
        \div FieldScale

\* tanh dipole demo: brightness = floor(255 - |sharp| * 255)
TanhBrightness(t) == (255 * TanhScale - Abs(t) * 255) \div TanhScale

\* waveguide demo: intensity = max(0, min(1, (field + 1) / 2)), in units of
\* 1/(2 * FieldScale); then the red or the blue branch
Intensity(f) == Max(0, Min(2 * FieldScale, f + FieldScale))

WaveguideColour(f) ==
    IF f > 0
       THEN <<10 + (Intensity(f) * 245) \div (2 * FieldScale),
              10 + (Intensity(f) * 100) \div (2 * FieldScale),
              10 + (Intensity(f) * 100) \div (2 * FieldScale),
              255>>
       ELSE <<10 + ((2 * FieldScale - Intensity(f)) * 100) \div (2 * FieldScale),
              10 + ((2 * FieldScale - Intensity(f)) * 150) \div (2 * FieldScale),
              10 + ((2 * FieldScale - Intensity(f)) * 245) \div (2 * FieldScale),
              255>>

Unpainted == pixel = <<0, 0, 0, 0>>

\* for (let dipole of dipoles) totalField += dipole.getFieldAt(x, y, time)
SumDipole ==
    /\ cmap \in {"linear", "tanh"}
    /\ Unpainted
    /\ summed < MaxDipoles
    /\ \E rsq \in DistancesSquared :
          \E c \in GetFieldAt(DefaultAmplitude, rsq) :
             totalField' = totalField + c
    /\ summed' = summed + 1
    /\ UNCHANGED <<sharp, cmap, pixel>>

\* field += coupling.field1 * decay; field += coupling.field2 * decay
SumGuides ==
    /\ cmap = "waveguide"
    /\ Unpainted
    /\ summed = 0
    /\ \E in1 \in BOOLEAN, in2 \in BOOLEAN :
          \E c1 \in GuideField(in1), c2 \in GuideField(in2) :
             totalField' = (totalField + c1) + c2
    /\ summed' = 2
    /\ UNCHANGED <<sharp, cmap, pixel>>

PaintLinear ==
    /\ cmap = "linear"
    /\ Unpainted
    /\ pixel' = <<LinearBrightness(totalField), LinearBrightness(totalField),
                  LinearBrightness(totalField), 255>>
    /\ UNCHANGED <<summed, totalField, sharp, cmap>>

PaintTanh ==
    /\ cmap = "tanh"
    /\ Unpainted
    /\ \E t \in TanhEnclosure(Abs(totalField) * 7, 2 * FieldScale) :
          /\ sharp' = IF totalField < 0 THEN -t ELSE t
          /\ pixel' = <<TanhBrightness(sharp'), TanhBrightness(sharp'),
                        TanhBrightness(sharp'), 255>>
    /\ UNCHANGED <<summed, totalField, cmap>>

PaintWaveguide ==
    /\ cmap = "waveguide"
    /\ Unpainted
    /\ pixel' = WaveguideColour(totalField)
    /\ UNCHANGED <<summed, totalField, sharp, cmap>>

ColourInit ==
    /\ cmap \in ColourMaps
    /\ summed = 0
    /\ totalField = 0
    /\ sharp = 0
    /\ pixel = <<0, 0, 0, 0>>
    /\ SimIdle /\ ScrollIdle

ColourNext ==
    \/ SumDipole /\ UNCHANGED <<simVars, scrollVars>>
    \/ SumGuides /\ UNCHANGED <<simVars, scrollVars>>
    \/ PaintLinear /\ UNCHANGED <<simVars, scrollVars>>
    \/ PaintTanh /\ UNCHANGED <<simVars, scrollVars>>
    \/ PaintWaveguide /\ UNCHANGED <<simVars, scrollVars>>

SpecColour == ColourInit /\ [][ColourNext]_vars

----------------------------------------------------------------------------
(***************************************************************************)
(* Properties                                                              *)
(***************************************************************************)

Ids(list) == {list[i].id : i \in DOMAIN list}
Config(list) == [i \in DOMAIN list |->
                    <<list[i].x, list[i].y, list[i].frequency, list[i].amplitude>>]
DipoleClickStep == demo = "dipole" /\ ev' = "click" /\ nextId' # nextId

(* C1: in the dipole demos a click appends the new source and, once the   *)
(* list would exceed 6, removes exactly the oldest one: the count after a  *)
(* click is min(count + 1, 6), a full list stays at 6 with its survivors   *)
(* moved up one place in order, and the list always holds the most         *)
(* recently constructed sources in insertion order.                        *)
C1_BoundedFifo ==
    [][DipoleClickStep =>
          /\ Len(dipoles') = Min(Len(dipoles) + 1, 6)
          /\ dipoles'[Len(dipoles')].id = nextId
          /\ Len(dipoles) < 6 => SubSeq(dipoles', 1, Len(dipoles)) = dipoles
          /\ Len(dipoles) = 6 =>
                /\ Len(dipoles') = 6
                /\ dipoles[1].id \notin Ids(dipoles')
                /\ \A i \in 1..5 : dipoles'[i] = dipoles[i + 1]
          /\ \A i \in DOMAIN dipoles' :
                dipoles'[i].id = (nextId' - Len(dipoles')) + (i - 1)]_vars

C1_Witness ==
    /\ demo = "dipole" /\ ev = "click"
    /\ Len(dipoles) = 6
    /\ dipoles[1].id = 2 /\ dipoles[6].id = 7

(* C2: a double-click leaves the canonical state: one source at            *)
(* (width/2, height/2) with frequency 0.05 and amplitude 1.0 and the clock *)
(* at 0 (waveguide demo: separation 3, clock 0); a double-click that       *)
(* follows a double-click leaves the same configuration and clock.         *)
C2_DblClickCanonical ==
    [][ev' = "dblclick" =>
          /\ time' = 0
          /\ demo = "dipole" =>
                /\ Len(dipoles') = 1
                /\ dipoles'[1].x * 2 = width' /\ dipoles'[1].y * 2 = height'
                /\ dipoles'[1].frequency = 50 /\ dipoles'[1].amplitude = 1
          /\ demo = "waveguide" => separation' = [n |-> 3, d |-> 1]
          /\ ev = "dblclick" =>
                /\ Config(dipoles') = Config(dipoles)
                /\ time' = time
                /\ separation' = separation]_vars

C2_Witness ==
    /\ demo = "dipole" /\ ev = "dblclick"
    /\ Len(dipoles) = 1 /\ dipoles[1].id >= 3
    /\ animationId >= 2 /\ time = 0

(* C3: after a window resize every source lies inside the new canvas       *)
(* bounds, 0 <= x <= width and 0 <= y <= height.                           *)
C3_ResizeInBounds ==
    ev = "resize" =>
       \A i \in DOMAIN dipoles :
          /\ 0 <= dipoles[i].x /\ dipoles[i].x <= width
          /\ 0 <= dipoles[i].y /\ dipoles[i].y <= height

C3_Witness ==
    /\ demo = "dipole" /\ ev = "resize"
    /\ width = 32 /\ Len(dipoles) = 1 /\ dipoles[1].id >= 3

(* C4 as stated: whenever the source list has been reset, by double-click  *)
(* or by resize, the clock is 0 when the handler completes.                *)
C4_ClockZeroAfterEveryReset ==
    (demo = "dipole" /\ ev \in {"dblclick", "resize"}) => time = 0

(* C4 as amended: a double-click sets the clock to 0; a resize replaces    *)
(* the source list and leaves the clock as it was.                         *)
C4_ClockResetOnDblClickOnly ==
    [][/\ ev' = "dblclick" => time' = 0
       /\ ev' = "resize" => time' = time]_vars

C4_Witness ==
    /\ demo = "dipole" /\ ev = "resize"
    /\ Len(dipoles) = 1 /\ dipoles[1].id >= 1 /\ time > 0

(* C5: when the canvas element is absent the script is a silent no-op: no  *)
(* error is raised, no handler is registered, no frame is requested.       *)
C5_SilentNoOp ==
    (pc # "load" /\ ~canvasPresent) =>
       /\ error = "none"
       /\ ~handlers
       /\ pendingFrames = 0 /\ animationId = 0

(* C6: at most one hero update is pending at any time, ticking is true     *)
(* exactly when one is pending, a scroll event arriving while one is       *)
(* pending schedules nothing, and a scroll event arriving when none is     *)
(* pending schedules one.                                                  *)
Throttled == pendingUpdates \in {0, 1} /\ (ticking <=> pendingUpdates = 1)
ScrollStep == pendingUpdates' >= pendingUpdates

C6_ScrollCoalesced ==
    /\ []Throttled
    /\ [][ScrollStep =>
             /\ ticking => pendingUpdates' = pendingUpdates /\ dropped'
             /\ ~ticking => pendingUpdates' = 1 /\ ticking' /\ ~dropped']_vars

C6_Witness == dropped /\ ticking /\ pendingUpdates = 1 /\ scrolled > InnerHeight

(* C7: every value assigned to a colour channel lies in 0..255, in the     *)
(* linear-clamp map, the tanh map and the waveguide map, for every field   *)
(* value up to the constructive sum of a full source list.                 *)
C7_ChannelsInRange == \A i \in 1..4 : pixel[i] >= 0 /\ pixel[i] <= 255

C7_Witness ==
    /\ summed = 6 /\ Abs(totalField) = 6 * FieldScale
    /\ pixel[4] = 255

(* C8: a source that is in the list before and after an event has the same *)
(* x, y, frequency and amplitude; a source leaves the list only through a  *)
(* reset (double-click, resize) or as the oldest one of a full list on a   *)
(* click.                                                                  *)
C8_SourcesImmutable ==
    [][/\ \A i \in DOMAIN dipoles : \A j \in DOMAIN dipoles' :
             dipoles[i].id = dipoles'[j].id => dipoles[i] = dipoles'[j]
       /\ \A i \in DOMAIN dipoles :
             dipoles[i].id \notin Ids(dipoles') =>
                \/ ev' \in {"dblclick", "resize"}
                \/ ev' = "click" /\ i = 1 /\ Len(dipoles) = 6]_vars

C8_Witness ==
    /\ demo = "dipole" /\ ev = "tick"
    /\ Len(dipoles) = 6 /\ dipoles[1].id >= 1
    /\ dipoles[6].x > 0

(* C9: the clock is the fixed increment (0.5 dipole, 0.3 waveguide) times  *)
(* the number of animate calls since it was last set to 0; it grows only   *)
(* in animate, by the increment, after the frame was drawn with the old    *)
(* value; it falls only to 0 in a double-click; a click leaves it alone.   *)
C9_ClockSteps ==
    [][/\ demo = "dipole" => time' = 5 * ticks'
       /\ demo = "waveguide" => time' = 3 * ticks'
       /\ ev' = "click" => time' = time
       /\ time' > time =>
             /\ ev' \in {"load", "tick"}
             /\ time' - time = (IF demo = "waveguide" THEN 3 ELSE 5)
             /\ drawnTime' = time
       /\ time' < time => ev' = "dblclick" /\ time' = 0]_vars

C9_Witness ==
    /\ demo = "waveguide" /\ ev = "click"
    /\ ticks = 3 /\ time = 9 /\ drawnTime = 6

(* C10: once the simulation runs exactly one frame callback is pending     *)
(* after every handler, and with frames delivered fairly every frame       *)
(* request is followed by the next one.                                    *)
C10_LoopNeverStops ==
    /\ [](pc = "running" => pendingFrames = 1)
    /\ \A n \in 1..(MaxFrames - 1) :
          (pc = "running" /\ animationId = n) ~> (animationId = n + 1)

C10_Witness ==
    /\ pc = "running" /\ ev = "dblclick"
    /\ pendingFrames = 1 /\ animationId = 2

====
